---- MODULE Spec2Model ----
(***************************************************************************)
(* Model of create_gz_vendor_pkg/create_vendor_packages.py.                *)
(*                                                                         *)
(* A Python str is a sequence of one-character strings, so that the        *)
(* regular expressions and str.replace are computed character by           *)
(* character.  Dependency and Package objects live in heaps (sequences     *)
(* indexed by address), so that copy.deepcopy and the in-place rename of   *)
(* vendorize_gz_dependency act on object identity as they do in Python.    *)
(* A raised exception is a result record with ok = FALSE.                  *)
(***************************************************************************)
EXTENDS Integers, Sequences, FiniteSets, TLC

VARIABLES
    pc,                 \* position inside generate_vendor_package_files
    heap,               \* Dependency objects: address -> [name, version_gte]
    pkgs,               \* Package objects: id -> [name, version, *_depends]
    output_dir,         \* the output_dir argument: TRUE when a directory is given
    src_snapshot,       \* the value of the input manifest when the call started
    xml_locals,         \* locals of create_vendor_package_xml at its return
    cmake_locals,       \* locals of create_cmake_file at its return
    output_package_xml, \* bindings rendered by create_vendor_package_xml
    output_cmake,       \* bindings rendered by create_cmake_file
    emitted,            \* artifacts written to output_dir or printed, in order
    util_fn,            \* name of the utility function last applied
    util_args,          \* its arguments
    util_res            \* its results

vars == << pc, heap, pkgs, output_dir, src_snapshot, xml_locals, cmake_locals,
           output_package_xml, output_cmake, emitted, util_fn, util_args, util_res >>

main_vars == << pc, heap, pkgs, output_dir, src_snapshot, xml_locals, cmake_locals,
                output_package_xml, output_cmake, emitted >>

util_vars == << util_fn, util_args, util_res >>

----------------------------------------------------------------------------
(* Bounds of the model *)

\* longest identifier drawn from IdAlphabet for the utility functions
MaxIdLen == 2
\* longest version string drawn from VerAlphabet for split_version
MaxVerLen == 6
\* most dependencies a manifest declares, all four categories together
MaxDeps == 3

----------------------------------------------------------------------------
(* Strings *)

LowerCase == { "a", "b", "c", "d", "e", "f", "g", "h", "i", "j", "k", "l", "m",
               "n", "o", "p", "q", "r", "s", "t", "u", "v", "w", "x", "y", "z" }

\* the character class [-_a-z]
NameChars == LowerCase \cup { "-", "_" }

\* the character class \d (ASCII digits)
Digits == { "0", "1", "2", "3", "4", "5", "6", "7", "8", "9" }

DigitValue(c) ==
    CASE c = "0" -> 0 [] c = "1" -> 1 [] c = "2" -> 2 [] c = "3" -> 3 [] c = "4" -> 4
      [] c = "5" -> 5 [] c = "6" -> 6 [] c = "7" -> 7 [] c = "8" -> 8 [] c = "9" -> 9

\* int(x) of a non-empty string of digits
RECURSIVE ToInt(_)
ToInt(ds) ==
    IF ds = << >> THEN 0
    ELSE 10 * ToInt(SubSeq(ds, 1, Len(ds) - 1)) + DigitValue(ds[Len(ds)])

\* the longest leading run of characters of class cls: a greedy cls* at position 0
RECURSIVE LeadingRun(_, _)
LeadingRun(s, cls) ==
    IF s = << >> \/ Head(s) \notin cls THEN << >>
    ELSE << Head(s) >> \o LeadingRun(Tail(s), cls)

\* s with its first n characters removed
Drop(s, n) == SubSeq(s, n + 1, Len(s))

\* str.replace(old, new) for one-character old and new
StrReplace(s, old, new) == [ i \in 1..Len(s) |-> IF s[i] = old THEN new ELSE s[i] ]

\* all strings of at most n characters of alphabet
StringsUpTo(alphabet, n) == UNION { [ 1..k -> alphabet ] : k \in 0..n }

Ok(v) == [ ok |-> TRUE, val |-> v, err |-> "" ]
Raise(e) == [ ok |-> FALSE, val |-> << >>, err |-> e ]

None == << >>
Some(v) == << v >>

----------------------------------------------------------------------------
(* Program constants *)

GZ_LIBRARIES ==
    << <<"g", "z", "-", "c", "m", "a", "k", "e">>,
       <<"g", "z", "-", "c", "o", "m", "m", "o", "n">>,
       <<"g", "z", "-", "f", "u", "e", "l", "-", "t", "o", "o", "l", "s">>,
       <<"g", "z", "-", "g", "u", "i">>,
       <<"g", "z", "-", "l", "a", "u", "n", "c", "h">>,
       <<"g", "z", "-", "m", "a", "t", "h">>,
       <<"g", "z", "-", "m", "s", "g", "s">>,
       <<"g", "z", "-", "p", "h", "y", "s", "i", "c", "s">>,
       <<"g", "z", "-", "p", "l", "u", "g", "i", "n">>,
       <<"g", "z", "-", "r", "e", "n", "d", "e", "r", "i", "n", "g">>,
       <<"g", "z", "-", "s", "e", "n", "s", "o", "r", "s">>,
       <<"g", "z", "-", "s", "i", "m">>,
       <<"g", "z", "-", "t", "o", "o", "l", "s">>,
       <<"g", "z", "-", "t", "r", "a", "n", "s", "p", "o", "r", "t">>,
       <<"g", "z", "-", "u", "t", "i", "l", "s">>,
       <<"s", "d", "f", "o", "r", "m", "a", "t">> >>

\* x in GZ_LIBRARIES
InGzLibraries(x) == \E i \in DOMAIN GZ_LIBRARIES : GZ_LIBRARIES[i] = x

VendorSuffix == <<"_", "v", "e", "n", "d", "o", "r">>

GzFuelTools == <<"g", "z", "-", "f", "u", "e", "l", "-", "t", "o", "o", "l", "s">>
GzFuelToolsCMake == <<"g", "z", "-", "f", "u", "e", "l", "_", "t", "o", "o", "l", "s">>
GzTools == <<"g", "z", "-", "t", "o", "o", "l", "s">>
GzCMake == <<"g", "z", "-", "c", "m", "a", "k", "e">>
SdFormat == <<"s", "d", "f", "o", "r", "m", "a", "t">>
GzPrefix == <<"g", "z", "-">>

----------------------------------------------------------------------------
(* Name and version utilities *)

\* re.match('[-_a-z]*', pkg_name): a starred class matches at position 0 of
\* every string, with the empty string when no character of the class leads
ReMatchName(pkg_name) == [ found |-> TRUE, group0 |-> LeadingRun(pkg_name, NameChars) ]

remove_version(pkg_name) ==
    LET pkg_name_no_version == ReMatchName(pkg_name)
    IN  IF ~ pkg_name_no_version.found
        THEN Raise("RuntimeError: Could not parse package name")
        ELSE Ok(pkg_name_no_version.group0)

\* create_vendor_name without the replacement of hyphens
CreateVendorNameNoReplace(pkg_name) == pkg_name \o VendorSuffix

create_vendor_name(pkg_name) == StrReplace(pkg_name, "-", "_") \o VendorSuffix

\* re.match(r'^(\d+)\.(\d+)\.(\d+)$', version).  \d+ is greedy and cannot
\* give back a character to "\.", so the scan is deterministic.  Without
\* re.MULTILINE, $ matches at the end of the string and also just before a
\* newline that is the string's last character.
ReMatchVersion(version) ==
    LET g1 == LeadingRun(version, Digits)
        r1 == Drop(version, Len(g1))
        g2 == IF r1 # << >> /\ Head(r1) = "." THEN LeadingRun(Tail(r1), Digits) ELSE << >>
        r2 == IF r1 # << >> THEN Drop(Tail(r1), Len(g2)) ELSE << >>
        g3 == IF r2 # << >> /\ Head(r2) = "." THEN LeadingRun(Tail(r2), Digits) ELSE << >>
        r3 == IF r2 # << >> THEN Drop(Tail(r2), Len(g3)) ELSE << >>
    IN  [ found  |-> /\ g1 # << >>
                     /\ g2 # << >>
                     /\ g3 # << >>
                     /\ r3 \in { << >>, << "\n" >> },
          groups |-> << g1, g2, g3 >> ]

split_version(version) ==
    LET match == ReMatchVersion(version)
    IN  IF ~ match.found
        THEN Raise("ValueError: Invalid version string, must be int.int.int")
        ELSE LET new_version == [ i \in 1..3 |-> ToInt(match.groups[i]) ]
             IN  Ok([ major |-> new_version[1],
                      minor |-> new_version[2],
                      patch |-> new_version[3] ])

\* the longest leading run of characters other than a newline: a greedy .*
RECURSIVE DotStar(_)
DotStar(s) ==
    IF s = << >> \/ Head(s) = "\n" THEN << >>
    ELSE << Head(s) >> \o DotStar(Tail(s))

\* re.match(r'gz-(.*)', pkg_name)
ReMatchGz(pkg_name) ==
    LET found == Len(pkg_name) >= 3 /\ SubSeq(pkg_name, 1, 3) = GzPrefix
    IN  [ found |-> found,
          group1 |-> IF found THEN DotStar(Drop(pkg_name, 3)) ELSE << >> ]

get_lib_designator(pkg_name) ==
    LET gz_match == ReMatchGz(pkg_name)
    IN  IF gz_match.found THEN Ok(gz_match.group1)
        ELSE IF pkg_name = SdFormat THEN Ok(SdFormat)
        ELSE Raise("ValueError: Could not extract designator from pkg_name")

----------------------------------------------------------------------------
(* Objects *)

\* catkin_pkg's Dependency: its __eq__ compares the name and the version
\* constraints attribute by attribute, which is equality of these records
Dependency(name, version_gte) == [ name |-> name, version_gte |-> version_gte ]

\* catkin_pkg's Package, the fields the program reads; a *_depends field is a
\* list of Dependency addresses
Package(name, version, build, exec, test, doc) ==
    [ name |-> name, version |-> version,
      build_depends |-> build, exec_depends |-> exec,
      test_depends |-> test, doc_depends |-> doc ]

\* the parameter `package` of generate_vendor_package_files
package == 1

\* the addresses a package's four lists hold, in category order
AllDepends(p) == p.build_depends \o p.exec_depends \o p.test_depends \o p.doc_depends

\* the Dependency values behind a list of addresses
Deref(H, deps) == [ i \in 1..Len(deps) |-> H[deps[i]] ]

\* a package with its lists dereferenced: what a template reads from pkg
PackageValue(H, p) ==
    [ name |-> p.name, version |-> p.version,
      build_depends |-> Deref(H, p.build_depends),
      exec_depends  |-> Deref(H, p.exec_depends),
      test_depends  |-> Deref(H, p.test_depends),
      doc_depends   |-> Deref(H, p.doc_depends) ]

\* copy.deepcopy(src_pkg_xml) without a copy: the working object is the input
AliasCopy(P, H, src) ==
    [ pkgs |-> P, heap |-> H, ref |-> src,
      memo |-> [ i \in 1..Len(H) |-> i ] ]

\* copy.deepcopy(src_pkg_xml): a new Package whose lists hold new Dependency
\* objects, one per object reachable from the source (memo: old -> new)
DeepCopy(P, H, src) ==
    LET all  == AllDepends(P[src])
        n    == Len(H)
        First(a) == CHOOSE i \in 1..Len(all) :
                        all[i] = a /\ \A j \in 1..(i - 1) : all[j] # a
        memo == [ a \in 1..n |->
                    IF \E i \in 1..Len(all) : all[i] = a THEN n + First(a) ELSE 0 ]
        Copied(l) == [ i \in 1..Len(l) |-> memo[l[i]] ]
        copy == Package(P[src].name, P[src].version,
                        Copied(P[src].build_depends), Copied(P[src].exec_depends),
                        Copied(P[src].test_depends), Copied(P[src].doc_depends))
    IN  [ pkgs |-> Append(P, copy),
          heap |-> H \o [ i \in 1..Len(all) |-> H[all[i]] ],
          ref  |-> Len(P) + 1,
          memo |-> memo ]

----------------------------------------------------------------------------
(* Vendor classifier and rewriter *)

\* is_gz_library without the membership test
IsGzLibraryAnyName(dep) == remove_version(dep.name).ok

is_gz_library(dep) ==
    LET pkg_name_no_version == remove_version(dep.name)
    IN  pkg_name_no_version.ok /\ InGzLibraries(pkg_name_no_version.val)

\* the heap after dep.name = create_vendor_name(remove_version(dep.name))
vendorize_gz_dependency(H, dep) ==
    LET pkg_name_no_version == remove_version(H[dep].name)
    IN  [ H EXCEPT ![dep].name = create_vendor_name(pkg_name_no_version.val) ]

\* the loop of separate_gz_deps with both appends going to the front
RECURSIVE SeparateLoopPrepend(_, _, _, _)
SeparateLoopPrepend(H, deps, gz_deps, non_gz_deps) ==
    IF deps = << >> THEN [ gz_deps |-> gz_deps, non_gz_deps |-> non_gz_deps ]
    ELSE IF is_gz_library(H[Head(deps)])
         THEN SeparateLoopPrepend(H, Tail(deps), << Head(deps) >> \o gz_deps, non_gz_deps)
         ELSE SeparateLoopPrepend(H, Tail(deps), gz_deps, << Head(deps) >> \o non_gz_deps)

\* the loop of separate_gz_deps: one pass, left to right
RECURSIVE SeparateLoop(_, _, _, _)
SeparateLoop(H, deps, gz_deps, non_gz_deps) ==
    IF deps = << >> THEN [ gz_deps |-> gz_deps, non_gz_deps |-> non_gz_deps ]
    ELSE IF is_gz_library(H[Head(deps)])
         THEN SeparateLoop(H, Tail(deps), Append(gz_deps, Head(deps)), non_gz_deps)
         ELSE SeparateLoop(H, Tail(deps), gz_deps, Append(non_gz_deps, Head(deps)))

\* separate_gz_deps with the order of each output reversed
SeparateReversed(H, deps) == SeparateLoopPrepend(H, deps, << >>, << >>)

separate_gz_deps(H, deps) == SeparateLoop(H, deps, << >>, << >>)

\* item in unique_items: list membership is identity or __eq__
Contains(H, unique_items, item) ==
    \E i \in 1..Len(unique_items) :
        unique_items[i] = item \/ H[unique_items[i]] = H[item]

RECURSIVE StableUniqueLoop(_, _, _)
StableUniqueLoop(H, items, unique_items) ==
    IF items = << >> THEN unique_items
    ELSE IF ~ Contains(H, unique_items, Head(items))
         THEN StableUniqueLoop(H, Tail(items), Append(unique_items, Head(items)))
         ELSE StableUniqueLoop(H, Tail(items), unique_items)

\* the loop of stable_unique keeping the last occurrence of each item
RECURSIVE LastUniqueLoop(_, _, _)
LastUniqueLoop(H, items, unique_items) ==
    IF items = << >> THEN unique_items
    ELSE IF ~ Contains(H, Tail(items), Head(items))
         THEN LastUniqueLoop(H, Tail(items), Append(unique_items, Head(items)))
         ELSE LastUniqueLoop(H, Tail(items), unique_items)

\* stable_unique keeping the last occurrence of each item
StableUniqueLast(H, items) == LastUniqueLoop(H, items, << >>)

stable_unique(H, items) == StableUniqueLoop(H, items, << >>)

\* for dep in gz_deps: vendorize_gz_dependency(dep)
RECURSIVE VendorizeAll(_, _)
VendorizeAll(H, gz_deps) ==
    IF gz_deps = << >> THEN H
    ELSE VendorizeAll(vendorize_gz_dependency(H, Head(gz_deps)), Tail(gz_deps))

----------------------------------------------------------------------------
(* The two projections *)

\* template.render(**bindings): the template text is fixed, so the artifact
\* is determined by the values bound
Render(template, bindings) == [ template |-> template, bindings |-> bindings ]

\* every remove_version call of a projection returns
NamesParse(H, p) ==
    /\ remove_version(p.name).ok
    /\ \A a \in 1..Len(H) : remove_version(H[a].name).ok

\* the four separate_gz_deps calls of a projection on the working copy v
SeparateAll(H, v) ==
    [ build |-> separate_gz_deps(H, v.build_depends),
      exec  |-> separate_gz_deps(H, v.exec_depends),
      test  |-> separate_gz_deps(H, v.test_depends),
      doc   |-> separate_gz_deps(H, v.doc_depends) ]

\* gz_build_deps + gz_exec_deps + gz_test_deps + gz_doc_deps
GzConcat(s) == s.build.gz_deps \o s.exec.gz_deps \o s.test.gz_deps \o s.doc.gz_deps

\* the working copy with each category replaced by its non-gz part
WithNonGz(v, s) ==
    [ v EXCEPT !.build_depends = s.build.non_gz_deps,
               !.exec_depends  = s.exec.non_gz_deps,
               !.test_depends  = s.test.non_gz_deps,
               !.doc_depends   = s.doc.non_gz_deps ]

\* the locals a projection holds when it renders
Locals(cp, vendor_name, gz_deps) ==
    [ vendor_pkg_xml |-> cp.ref, memo |-> cp.memo,
      vendor_name |-> vendor_name, gz_deps |-> gz_deps ]

\* create_vendor_package_xml from the rename loop to the return
XmlRender(cp, P2, H2, pkg_name_no_version, gz_deps) ==
    [ ok     |-> NamesParse(cp.heap, cp.pkgs[cp.ref]),
      pkgs   |-> P2,
      heap   |-> H2,
      locals |-> Locals(cp, create_vendor_name(pkg_name_no_version), gz_deps),
      text   |-> Render("package.xml.jinja",
                    [ pkg |-> PackageValue(H2, P2[cp.ref]),
                      vendor_name |-> create_vendor_name(pkg_name_no_version),
                      gz_vendor_deps |-> Deref(H2, gz_deps) ]) ]

\* create_vendor_package_xml from stable_unique on
XmlRewrite(cp, P2, pkg_name_no_version, gz_deps) ==
    XmlRender(cp, P2, VendorizeAll(cp.heap, gz_deps), pkg_name_no_version, gz_deps)

\* create_vendor_package_xml from the four separate_gz_deps calls on
XmlSeparate(cp, s) ==
    XmlRewrite(cp,
               [ cp.pkgs EXCEPT ![cp.ref] = WithNonGz(@, s) ],
               remove_version(cp.pkgs[cp.ref].name).val,
               stable_unique(cp.heap, GzConcat(s)))

\* create_vendor_package_xml on its working copy
XmlProject(cp) == XmlSeparate(cp, SeparateAll(cp.heap, cp.pkgs[cp.ref]))

create_vendor_package_xml(P, H, src_pkg_xml) == XmlProject(DeepCopy(P, H, src_pkg_xml))

\* create_cmake_file from the rename loop to the return
CmakeRender(cp, H2, pkg_name_no_version, gz_deps, version) ==
    [ ok     |-> NamesParse(cp.heap, cp.pkgs[cp.ref]) /\ version.ok,
      pkgs   |-> cp.pkgs,
      heap   |-> H2,
      locals |-> Locals(cp, create_vendor_name(pkg_name_no_version), gz_deps),
      text   |-> Render("CMakeLists.txt.jinja",
                    [ pkg |-> PackageValue(H2, cp.pkgs[cp.ref]),
                      cmake_pkg_name |-> IF pkg_name_no_version = GzFuelTools
                                         THEN GzFuelToolsCMake
                                         ELSE pkg_name_no_version,
                      github_pkg_name |-> pkg_name_no_version,
                      vendor_name |-> create_vendor_name(pkg_name_no_version),
                      gz_vendor_deps |-> Deref(H2, gz_deps),
                      has_extra_cmake |-> pkg_name_no_version \in { GzTools, GzCMake },
                      version |-> version.val ]) ]

\* create_cmake_file from stable_unique on
CmakeRewrite(cp, pkg_name_no_version, gz_deps) ==
    CmakeRender(cp, VendorizeAll(cp.heap, gz_deps), pkg_name_no_version, gz_deps,
                split_version(cp.pkgs[cp.ref].version))

\* create_cmake_file on its working copy
CmakeProject(cp) ==
    CmakeRewrite(cp,
                 remove_version(cp.pkgs[cp.ref].name).val,
                 stable_unique(cp.heap, GzConcat(SeparateAll(cp.heap, cp.pkgs[cp.ref]))))

create_cmake_file(P, H, src_pkg_xml) == CmakeProject(DeepCopy(P, H, src_pkg_xml))

----------------------------------------------------------------------------
(* generate_vendor_package_files, statement by statement *)

\* one artifact written to a file of output_dir or printed
Emitted(dest, text) == [ dest |-> dest, text |-> text ]

\* output_package_xml = create_vendor_package_xml(package), with the file
\* written as soon as its text exists
CallCreateVendorPackageXmlEager ==
    /\ pc = "start"
    /\ \E r \in { create_vendor_package_xml(pkgs, heap, package) } :
           /\ pkgs' = r.pkgs
           /\ heap' = r.heap
           /\ xml_locals' = Some(r.locals)
           /\ output_package_xml' = Some(r.text)
           /\ emitted' = IF output_dir
                         THEN Append(emitted, Emitted("package.xml", r.text))
                         ELSE Append(emitted, Emitted("stdout", r.text))
           /\ pc' = "xml_done"
    /\ UNCHANGED << output_dir, src_snapshot, cmake_locals, output_cmake >>
    /\ UNCHANGED util_vars

\* output_package_xml = create_vendor_package_xml(package)
CallCreateVendorPackageXml ==
    /\ pc = "start"
    /\ \E r \in { create_vendor_package_xml(pkgs, heap, package) } :
           /\ pkgs' = r.pkgs
           /\ heap' = r.heap
           /\ xml_locals' = IF r.ok THEN Some(r.locals) ELSE None
           /\ output_package_xml' = IF r.ok THEN Some(r.text) ELSE None
           /\ pc' = IF r.ok THEN "xml_done" ELSE "failed"
    /\ UNCHANGED << output_dir, src_snapshot, cmake_locals, output_cmake, emitted >>
    /\ UNCHANGED util_vars

\* output_cmake = create_cmake_file(package)
CallCreateCmakeFile ==
    /\ pc = "xml_done"
    /\ \E r \in { create_cmake_file(pkgs, heap, package) } :
           /\ pkgs' = r.pkgs
           /\ heap' = r.heap
           /\ cmake_locals' = IF r.ok THEN Some(r.locals) ELSE None
           /\ output_cmake' = IF r.ok THEN Some(r.text) ELSE None
           /\ pc' = IF r.ok THEN "cmake_done" ELSE "failed"
    /\ UNCHANGED << output_dir, src_snapshot, xml_locals, output_package_xml, emitted >>
    /\ UNCHANGED util_vars

\* with open(Path(output_dir) / "package.xml", 'w') as f: f.write(output_package_xml)
WritePackageXml ==
    /\ pc = "cmake_done"
    /\ output_dir
    /\ emitted' = Append(emitted, Emitted("package.xml", output_package_xml[1]))
    /\ pc' = "package_xml_written"
    /\ UNCHANGED << heap, pkgs, output_dir, src_snapshot, xml_locals, cmake_locals,
                    output_package_xml, output_cmake >>
    /\ UNCHANGED util_vars

\* with open(Path(output_dir) / "CMakeLists.txt", 'w') as f: f.write(output_cmake)
WriteCMakeLists ==
    /\ pc = "package_xml_written"
    /\ emitted' = Append(emitted, Emitted("CMakeLists.txt", output_cmake[1]))
    /\ pc' = "done"
    /\ UNCHANGED << heap, pkgs, output_dir, src_snapshot, xml_locals, cmake_locals,
                    output_package_xml, output_cmake >>
    /\ UNCHANGED util_vars

\* print(output_package_xml)
PrintPackageXml ==
    /\ pc = "cmake_done"
    /\ ~ output_dir
    /\ emitted' = Append(emitted, Emitted("stdout", output_package_xml[1]))
    /\ pc' = "package_xml_printed"
    /\ UNCHANGED << heap, pkgs, output_dir, src_snapshot, xml_locals, cmake_locals,
                    output_package_xml, output_cmake >>
    /\ UNCHANGED util_vars

\* print(output_cmake)
PrintCmake ==
    /\ pc = "package_xml_printed"
    /\ emitted' = Append(emitted, Emitted("stdout", output_cmake[1]))
    /\ pc' = "done"
    /\ UNCHANGED << heap, pkgs, output_dir, src_snapshot, xml_locals, cmake_locals,
                    output_package_xml, output_cmake >>
    /\ UNCHANGED util_vars

----------------------------------------------------------------------------
(* Inputs *)

NoConstraint == << >>

\* the dependencies a manifest declares: a library of the registry without
\* and with a version constraint, a second library of the registry with an
\* inline version suffix, and a library outside the registry
DepChoices ==
    { Dependency(<<"g", "z", "-", "m", "a", "t", "h">>, NoConstraint),
      Dependency(<<"g", "z", "-", "m", "a", "t", "h">>, <<"7">>),
      Dependency(<<"g", "z", "-", "u", "t", "i", "l", "s", "2">>, NoConstraint),
      Dependency(<<"e", "i", "g", "e", "n", "3">>, NoConstraint) }

PackageNames ==
    { <<"g", "z", "-", "f", "u", "e", "l", "-", "t", "o", "o", "l", "s">>,
      <<"g", "z", "-", "c", "m", "a", "k", "e", "3">> }

PackageVersions ==
    { <<"9", ".", "1", ".", "0">>,
      <<"1", ".", "2">> }

\* the addresses lo+1 .. hi, in order
Addresses(lo, hi) == [ i \in 1..(hi - lo) |-> lo + i ]

util_idle ==
    /\ util_fn = "none"
    /\ util_args = << >>
    /\ util_res = << >>

\* a parsed manifest: every dependency element is its own Dependency object
Init ==
    /\ pc = "start"
    /\ \E k \in 0..MaxDeps :
         \E deps \in [ 1..k -> DepChoices ] :
           \E c1 \in 0..k : \E c2 \in c1..k : \E c3 \in c2..k :
             \E name \in PackageNames : \E version \in PackageVersions :
               /\ heap = deps
               /\ pkgs = << Package(name, version,
                                    Addresses(0, c1), Addresses(c1, c2),
                                    Addresses(c2, c3), Addresses(c3, k)) >>
    /\ output_dir \in BOOLEAN
    /\ src_snapshot = [ pkgs |-> pkgs, heap |-> heap ]
    /\ xml_locals = None
    /\ cmake_locals = None
    /\ output_package_xml = None
    /\ output_cmake = None
    /\ emitted = << >>
    /\ util_idle

Next ==
    \/ CallCreateVendorPackageXml
    \/ CallCreateCmakeFile
    \/ WritePackageXml
    \/ WriteCMakeLists
    \/ PrintPackageXml
    \/ PrintCmake

Spec == Init /\ [][Next]_vars

----------------------------------------------------------------------------
(* The utility functions applied to arbitrary strings *)

IdAlphabet == { "a", "-", "_", "7", "A" }

NamedIdentifiers ==
    { <<"g", "z", "-", "m", "a", "t", "h">>,
      <<"g", "z", "_", "m", "a", "t", "h">>,
      <<"g", "z", "-", "m", "a", "t", "h", "7">>,
      <<"s", "d", "f", "o", "r", "m", "a", "t">>,
      <<"g", "z", "-", "f", "u", "e", "l", "-", "t", "o", "o", "l", "s">>,
      <<"e", "i", "g", "e", "n", "3">>,
      <<"7", "z", "i", "p">>,
      <<"Q", "t">> }

IdentifierInputs == StringsUpTo(IdAlphabet, MaxIdLen) \cup NamedIdentifiers

VerAlphabet == { "0", "1", ".", "\n" }

NamedVersions ==
    { <<"1", ".", "2">>,
      <<"1", ".", "2", ".", "3", "-", "r", "c", "1">>,
      <<"v", "1", ".", "2", ".", "3">>,
      <<"1", ".", "2", ".", "3", ".", "4">>,
      <<"1", ".", "2", ".", "3">>,
      <<"9", ".", "1", ".", "0">>,
      <<"1", "0", ".", "2", "0", ".", "3", "0">> }

VersionInputs == StringsUpTo(VerAlphabet, MaxVerLen) \cup NamedVersions

main_idle ==
    /\ pc = "idle"
    /\ heap = << >>
    /\ pkgs = << >>
    /\ output_dir = FALSE
    /\ src_snapshot = [ pkgs |-> << >>, heap |-> << >> ]
    /\ xml_locals = None
    /\ cmake_locals = None
    /\ output_package_xml = None
    /\ output_cmake = None
    /\ emitted = << >>

UtilInit == main_idle /\ util_idle

ApplyRemoveVersion ==
    /\ util_fn = "none"
    /\ \E pkg_name \in IdentifierInputs :
         /\ util_fn' = "remove_version"
         /\ util_args' = << pkg_name >>
         /\ util_res' = << remove_version(pkg_name) >>
    /\ UNCHANGED main_vars

\* create_vendor_name applied to two names
ApplyCreateVendorName ==
    /\ util_fn = "none"
    /\ \E a \in IdentifierInputs : \E b \in IdentifierInputs :
         /\ util_fn' = "create_vendor_name"
         /\ util_args' = << a, b >>
         /\ util_res' = << create_vendor_name(a), create_vendor_name(b) >>
    /\ UNCHANGED main_vars

ApplySplitVersion ==
    /\ util_fn = "none"
    /\ \E version \in VersionInputs :
         /\ util_fn' = "split_version"
         /\ util_args' = << version >>
         /\ util_res' = << split_version(version) >>
    /\ UNCHANGED main_vars

ApplyGetLibDesignator ==
    /\ util_fn = "none"
    /\ \E pkg_name \in IdentifierInputs :
         /\ util_fn' = "get_lib_designator"
         /\ util_args' = << pkg_name >>
         /\ util_res' = << get_lib_designator(pkg_name) >>
    /\ UNCHANGED main_vars

UtilNext ==
    \/ ApplyRemoveVersion
    \/ ApplyCreateVendorName
    \/ ApplySplitVersion
    \/ ApplyGetLibDesignator

SpecUtil == UtilInit /\ [][UtilNext]_vars

----------------------------------------------------------------------------
(* Claims about the utility functions, checked under SpecUtil *)

\* s has no non-empty leading run of lowercase letters, hyphens and underscores
NoLeadingNameRun(s) == s = << >> \/ s[1] \notin NameChars

\* C6: remove_version raises a parse error for every identifier that has no
\* non-empty leading run of lowercase-letter/hyphen/underscore characters, and
\* never returns the empty string as a base name.
C6_RemoveVersionRaisesOnEmptyPrefix ==
    util_fn = "remove_version" =>
        /\ NoLeadingNameRun(util_args[1]) => ~ util_res[1].ok
        /\ util_res[1].ok => util_res[1].val # << >>

IsDigitString(s) == s # << >> /\ \A i \in 1..Len(s) : s[i] \in Digits

RECURSIVE Pow10(_)
Pow10(n) == IF n = 0 THEN 1 ELSE 10 * Pow10(n - 1)

RECURSIVE DecimalSum(_, _)
DecimalSum(ds, i) ==
    IF i > Len(ds) THEN 0
    ELSE DigitValue(ds[i]) * Pow10(Len(ds) - i) + DecimalSum(ds, i + 1)

\* s is three digit strings separated by the dots at positions i and j
DotsAt(s, i, j) ==
    /\ i < j
    /\ s[i] = "."
    /\ s[j] = "."
    /\ IsDigitString(SubSeq(s, 1, i - 1))
    /\ IsDigitString(SubSeq(s, i + 1, j - 1))
    /\ IsDigitString(SubSeq(s, j + 1, Len(s)))

IsIntDotIntDotInt(s) == \E i \in 1..Len(s) : \E j \in 1..Len(s) : DotsAt(s, i, j)

\* C7: split_version succeeds exactly on the strings that are three
\* non-negative decimal integers separated by single dots and nothing else,
\* and then returns those integers as major, minor and patch; every other
\* string raises the invalid-version error.
C7_SplitVersionAcceptsExactlyIntDotIntDotInt ==
    util_fn = "split_version" =>
        /\ util_res[1].ok <=> IsIntDotIntDotInt(util_args[1])
        /\ util_res[1].ok =>
             \E i \in 1..Len(util_args[1]) : \E j \in 1..Len(util_args[1]) :
                /\ DotsAt(util_args[1], i, j)
                /\ util_res[1].val =
                     [ major |-> DecimalSum(SubSeq(util_args[1], 1, i - 1), 1),
                       minor |-> DecimalSum(SubSeq(util_args[1], i + 1, j - 1), 1),
                       patch |-> DecimalSum(SubSeq(util_args[1], j + 1, Len(util_args[1])), 1) ]

Separators == { "-", "_" }

\* a and b are equal once hyphen and underscore are read as the same character
SameUpToSeparators(a, b) ==
    /\ Len(a) = Len(b)
    /\ \A i \in 1..Len(a) : a[i] = b[i] \/ { a[i], b[i] } \subseteq Separators

\* C8 as stated: create_vendor_name maps any two distinct base names, also
\* two that differ only in their separators, to distinct vendored identifiers.
C8_VendorNameInjective ==
    util_fn = "create_vendor_name" =>
        (util_args[1] # util_args[2] => util_res[1] # util_res[2])

\* C8 as amended: create_vendor_name maps two base names to the same
\* vendored identifier exactly when they are equal up to the choice between
\* hyphen and underscore; so it is injective on names without underscores,
\* and names that differ only in their separators do collide.
C8_VendorNameInjectiveUpToSeparators ==
    util_fn = "create_vendor_name" =>
        /\ util_res[1] = util_res[2] <=> SameUpToSeparators(util_args[1], util_args[2])
        /\ ( /\ "_" \notin { util_args[1][i] : i \in 1..Len(util_args[1]) }
             /\ "_" \notin { util_args[2][i] : i \in 1..Len(util_args[2]) }
             /\ util_res[1] = util_res[2] ) => util_args[1] = util_args[2]

\* create_vendor_name applied to 'gz-math' and 'gz_math' gave 'gz_math_vendor' twice
C8_Witness ==
    /\ util_fn = "create_vendor_name"
    /\ util_args = << <<"g", "z", "-", "m", "a", "t", "h">>,
                      <<"g", "z", "_", "m", "a", "t", "h">> >>
    /\ util_res[1] = <<"g", "z", "_", "m", "a", "t", "h", "_", "v", "e", "n", "d", "o", "r">>
    /\ util_res[2] = util_res[1]

----------------------------------------------------------------------------
(* Claims about the projections, checked under Spec *)

\* the input manifest as it was when generate_vendor_package_files was called
SrcPackage == src_snapshot.pkgs[package]
SrcDep(a) == src_snapshot.heap[a]
SrcAddresses == 1..Len(src_snapshot.heap)

\* the base name of input dependency a is in the vendor registry
SrcVendorBound(a) == InGzLibraries(LeadingRun(SrcDep(a).name, NameChars))

NoTwoWithSameName(deps) ==
    \A i \in 1..Len(deps) : \A j \in 1..Len(deps) :
        i # j => deps[i].name # deps[j].name

\* C1: the vendor-bound dependency list produced by either projection holds
\* no two entries with the same identifier after rewriting: every vendored
\* library is declared exactly once, whatever inline version suffix or
\* version constraint each of its declarations carried.
C1_VendorBoundListHasNoDuplicateIdentifier ==
    /\ output_package_xml # None =>
           NoTwoWithSameName(output_package_xml[1].bindings.gz_vendor_deps)
    /\ output_cmake # None =>
           NoTwoWithSameName(output_cmake[1].bindings.gz_vendor_deps)

InSeq(x, seq) == \E i \in 1..Len(seq) : seq[i] = x

\* a projection with locals L kept every passthrough dependency's identifier
\* and took only registry libraries into gz_deps
PassthroughUntouched(L) ==
    /\ \A a \in SrcAddresses :
          ~ SrcVendorBound(a) =>
              /\ heap[L.memo[a]].name = SrcDep(a).name
              /\ ~ InSeq(L.memo[a], L.gz_deps)
    /\ \A i \in 1..Len(L.gz_deps) :
          \E a \in SrcAddresses : L.memo[a] = L.gz_deps[i] /\ SrcVendorBound(a)

\* C2: in both projections a dependency whose base name is not in
\* GZ_LIBRARIES keeps its identifier and is never an element of the
\* vendor-bound list, and every element of the vendor-bound list had a base
\* name in GZ_LIBRARIES before rewriting.
C2_PassthroughNeverRewrittenNorVendorBound ==
    /\ xml_locals # None => PassthroughUntouched(xml_locals[1])
    /\ cmake_locals # None => PassthroughUntouched(cmake_locals[1])

\* both projections ran on a manifest with a passthrough dependency and a
\* vendor-bound one
C2_Witness ==
    /\ cmake_locals # None
    /\ \E a \in SrcAddresses : ~ SrcVendorBound(a)
    /\ Len(xml_locals[1].gz_deps) > 0
    /\ Len(cmake_locals[1].gz_deps) > 0

\* C3: the input manifest is left unmodified by both projections: its name,
\* version, four dependency sequences and every dependency in them keep
\* their values, so the second projection classifies and rewrites the same
\* dependencies as the first.
C3_InputManifestUnmodified ==
    /\ pkgs[package] = SrcPackage
    /\ \A a \in SrcAddresses : heap[a] = SrcDep(a)
    /\ cmake_locals # None =>
          /\ Len(cmake_locals[1].gz_deps) = Len(xml_locals[1].gz_deps)
          /\ output_cmake[1].bindings.gz_vendor_deps =
                 output_package_xml[1].bindings.gz_vendor_deps

\* both projections have run and each renamed a dependency of its copy
C3_Witness ==
    /\ cmake_locals # None
    /\ Len(xml_locals[1].gz_deps) > 0
    /\ heap[xml_locals[1].gz_deps[1]].name # SrcDep(1).name
    /\ SrcVendorBound(1)

\* C4: the upstream-source designator bound to the build-descriptor template
\* is get_lib_designator of the subject package's base name; for
\* 'gz-fuel-tools' version '9.1.0' it is 'fuel-tools', the build-system
\* package name is 'gz-fuel_tools' and the version triple is {9,1,0}.
C4_DesignatorBindingIsLibDesignator ==
    output_cmake # None =>
        /\ output_cmake[1].bindings.github_pkg_name =
               get_lib_designator(LeadingRun(SrcPackage.name, NameChars)).val
        /\ ( /\ SrcPackage.name = GzFuelTools
             /\ SrcPackage.version = <<"9", ".", "1", ".", "0">> ) =>
               /\ output_cmake[1].bindings.github_pkg_name =
                      <<"f", "u", "e", "l", "-", "t", "o", "o", "l", "s">>
               /\ output_cmake[1].bindings.cmake_pkg_name = GzFuelToolsCMake
               /\ output_cmake[1].bindings.version =
                      [ major |-> 9, minor |-> 1, patch |-> 0 ]

SrcPassthrough(deps) ==
    LET Keep(a) == ~ SrcVendorBound(a) IN SelectSeq(deps, Keep)

\* C9: in create_vendor_package_xml each of the four categories of the
\* projected manifest is exactly the subsequence of the original category
\* whose base names are not in GZ_LIBRARIES, in the original relative order:
\* no vendor-bound dependency remains, and no passthrough dependency is
\* dropped, duplicated, reordered or moved to another category.
C9_CategoriesAreStablePassthroughSubsequences ==
    xml_locals # None =>
        LET L == xml_locals[1]
            v == pkgs[L.vendor_pkg_xml]
            Copy(deps) == [ i \in 1..Len(deps) |-> L.memo[deps[i]] ]
            Values(deps) == [ i \in 1..Len(deps) |-> SrcDep(deps[i]) ]
            shown == output_package_xml[1].bindings.pkg
        IN  /\ v.build_depends = Copy(SrcPassthrough(SrcPackage.build_depends))
            /\ v.exec_depends = Copy(SrcPassthrough(SrcPackage.exec_depends))
            /\ v.test_depends = Copy(SrcPassthrough(SrcPackage.test_depends))
            /\ v.doc_depends = Copy(SrcPassthrough(SrcPackage.doc_depends))
            /\ shown.build_depends = Values(SrcPassthrough(SrcPackage.build_depends))
            /\ shown.exec_depends = Values(SrcPassthrough(SrcPackage.exec_depends))
            /\ shown.test_depends = Values(SrcPassthrough(SrcPackage.test_depends))
            /\ shown.doc_depends = Values(SrcPassthrough(SrcPackage.doc_depends))

\* the manifest projection ran on a category holding two passthrough
\* dependencies around a vendor-bound one
C9_Witness ==
    /\ xml_locals # None
    /\ Len(SrcPackage.build_depends) = 3
    /\ ~ SrcVendorBound(1)
    /\ SrcVendorBound(2)
    /\ ~ SrcVendorBound(3)
    /\ Len(pkgs[xml_locals[1].vendor_pkg_xml].build_depends) = 2

\* the input addresses of the vendor-bound dependencies, in the order build,
\* exec, test, doc
SrcVendorBoundConcat == SelectSeq(AllDepends(SrcPackage), SrcVendorBound)

\* the positions of concat whose dependency occurs at no earlier position
FirstOccurrences(concat) ==
    { i \in 1..Len(concat) :
        \A j \in 1..(i - 1) : SrcDep(concat[j]) # SrcDep(concat[i]) }

\* the k-th smallest element of the set of positions firsts
Kth(firsts, k) ==
    CHOOSE i \in firsts : Cardinality({ j \in firsts : j <= i }) = k

\* a projection's vendor-bound list is the first occurrences, in order, renamed
FirstOccurrenceWins(L, rendered) ==
    \A concat \in { SrcVendorBoundConcat } :
      \A firsts \in { FirstOccurrences(concat) } :
        /\ Len(L.gz_deps) = Cardinality(firsts)
        /\ Len(rendered) = Cardinality(firsts)
        /\ \A k \in 1..Len(L.gz_deps) :
             \A a \in { concat[Kth(firsts, k)] } :
               /\ L.gz_deps[k] = L.memo[a]
               /\ rendered[k].version_gte = SrcDep(a).version_gte
               /\ rendered[k].name =
                      create_vendor_name(LeadingRun(SrcDep(a).name, NameChars))

====
